---------------------------- MODULE Spec2Model ----------------------------
(***************************************************************************)
(* Model of create_samples.py: the five procedural image composers         *)
(* (landscape, portrait, architecture, nature, abstract) and the driver    *)
(* main() that calls them and writes one file per theme.                   *)
(*                                                                         *)
(* The canvas is a height x width x 3 array of unsigned bytes.  Apart from *)
(* the blur of main (a library call), every operation of the composers is  *)
(* pointwise: the value an element ends with depends only on its own       *)
(* coordinates and on the random numbers drawn for it.  The model follows  *)
(* one element of the array, probe = (y, x, c), chosen arbitrarily at the  *)
(* start, through every statement of the composer, and draws only the      *)
(* component of each random vector that lands on it.  Array-level facts    *)
(* (its shape, which loop wrote which row, the slice bounds of the last    *)
(* rectangle written) are kept beside it.                                  *)
(*                                                                         *)
(* Channels are numbered 1..3 here (0..2 in the source); rows and columns  *)
(* are numbered from 0 as in the source.                                   *)
(***************************************************************************)
EXTENDS Integers, Sequences, FiniteSets, TLC

VARIABLES
    theme,      \* which composer is running
    height,     \* size[0]
    width,      \* size[1]
    shape,      \* shape of the array bound to `image`
    pc,         \* position in the composer
    y,          \* row loop variable
    i,          \* stripe loop variable (architecture)
    building,   \* outer window loop variable (architecture)
    floor,      \* inner window loop variable (architecture)
    n,          \* iterations done of the spot loop / shape loop
    probe,      \* the observed element [y, x, c]
    image,      \* image[probe.y, probe.x, probe.c], as stored
    raw,        \* the value last assigned to that element, before the cast
    rowWrites,  \* landscape: for each row, the band loops that wrote it
    rect,       \* bounds <<y1, y2, x1, x2>> of the last slice written
    passes,     \* noise-and-clip passes applied so far
    error,      \* "none" or the exception the composer raised
    drawn,      \* shapes drawn by the abstract composer
    files,      \* main: per file, 0 (absent), 1 (there before the first run)
                \* or r + 1 (written by run r)
    run,        \* main: number of the current run
    turn,       \* main: index in `generators` of the entry being processed
    mpc,        \* main: "idle", "loop", "finished" or "raised"
    invoked,    \* main: per file, what this run invoked for it
    complete    \* main: TRUE when the previous run ended normally

composerVars == <<theme, height, width, shape, pc, y, i, building, floor, n, probe,
                  image, raw, rowWrites, rect, passes, error, drawn>>
mainVars == <<files, run, turn, mpc, invoked, complete>>
vars == <<theme, height, width, shape, pc, y, i, building, floor, n, probe,
          image, raw, rowWrites, rect, passes, error, drawn,
          files, run, turn, mpc, invoked, complete>>

---------------------------------------------------------------------------
(* Bounds of the model. *)

\* Small canvases have up to MaxHeight rows and up to MaxWidth columns.
MaxHeight == 4
MaxWidth == 4
\* Canvases with at most MaxProbe rows (columns) are observed at every row
\* (column); larger ones at the middle one, and a canvas of the composer's
\* default size at its last element.
MaxProbe == 5
\* The architecture composer also runs on canvases of 12 * fs + 1 rows and
\* 8 * sw + r columns, fs <= MaxFloorSpacing, 1 <= sw <= MaxStripeWidth and
\* r <= MaxRemainder.
MaxFloorSpacing == 2
MaxStripeWidth == 2
MaxRemainder == 1
\* Runs of main, one after the other on the same directory.
MaxRuns == 2
\* Further noise-and-clip passes applied to a returned canvas.
MaxExtraPasses == 2
\* Perturbations tried by a noise pass: -MaxPerturbation..MaxPerturbation.
MaxPerturbation == 16

---------------------------------------------------------------------------
(* Library operations, as the source uses them. *)

Min(a, b) == IF a <= b THEN a ELSE b

\* np.random.randint(low, high): the half-open interval [low, high)
RandIntClosed(low, high) == low..high
RandInt(low, high) == low..(high - 1)

\* np.random.randint raises ValueError when the interval is empty
RandIntRaises(low, high) == low >= high

\* range(start, stop, step) raises ValueError when step is 0
RangeRaises(step) == step = 0

\* np.random.choice(a) raises ValueError unless a is one-dimensional
ChoiceRaises(ndim) == ndim # 1

\* np.clip(v, lo, hi)
Clip(v, lo, hi) == IF v < lo THEN lo ELSE IF v > hi THEN hi ELSE v

\* conversion to np.uint8: the low eight bits
AsInt8(v) == ((v + 128) % 256) - 128
AsUint8(v) == v % 256

\* conversion to np.int16
AsInt16(v) == ((v + 32768) % 65536) - 32768

\* shape of the result of an element-wise operation on two arrays
BroadcastShape(s, t) ==
    [k \in 1..Len(s) |-> IF s[k] = 1 THEN t[k] ELSE s[k]]

\* a[y1:y2, x1:x2] on an h x w array: slice bounds are clipped to the array
SliceBounds(y1, y2, x1, x2, h, w) ==
    <<Min(y1, h), Min(y2, h), Min(x1, w), Min(x2, w)>>

InSlice(p, r) == r[1] <= p.y /\ p.y < r[2] /\ r[3] <= p.x /\ p.x < r[4]

\* the boolean mask (x_coords - cx)**2 + (y_coords - cy)**2 <= r**2
InCircleStrict(p, cx, cy, r) ==
    (p.x - cx) * (p.x - cx) + (p.y - cy) * (p.y - cy) < r * r
InCircle(p, cx, cy, r) ==
    (p.x - cx) * (p.x - cx) + (p.y - cy) * (p.y - cy) <= r * r

\* int(a / b) for b > 0: truncation toward zero
IntTrunc(a, b) == IF a >= 0 THEN a \div b ELSE -((-a) \div b)

\* Fixed-point reals: the real r is the integer r * FxOne, cut to four
\* decimals.  np.sin and np.cos are evaluated in this arithmetic, so a
\* result may differ from the double-precision one in the fourth decimal.
FxOne == 100 * 100
FxPi == 31416
FxMul(a, b) == IntTrunc(a * b, FxOne)

\* sin(a) for a fixed-point angle a in [0, pi/2]: the Taylor polynomial
\* a - a^3/3! + a^5/5! - a^7/7! + a^9/9!
SinTaylor(a) ==
    LET a2 == FxMul(a, a)
        t3 == FxMul(a, a2) \div 6
        t5 == FxMul(t3, a2) \div 20
        t7 == FxMul(t5, a2) \div 42
        t9 == FxMul(t7, a2) \div 72
    IN  Min(FxOne, a - t3 + t5 - t7 + t9)

\* sin(pi * num / den) for den > 0, by reduction to [0, pi/2]
SinPi(num, den) ==
    LET m == num % (2 * den)
        sign == IF m >= den THEN -1 ELSE 1
        h == IF m >= den THEN m - den ELSE m
        q == IF 2 * h > den THEN den - h ELSE h
    IN  IF q = 0 THEN 0
        ELSE IF 2 * q = den THEN sign * FxOne
        ELSE sign * SinTaylor((FxPi * q) \div den)

\* cos(pi * num / den) = sin(pi * (num / den + 1/2))
CosPi(num, den) == SinPi(2 * num + den, 2 * den)

---------------------------------------------------------------------------
(* Sizes and observed elements. *)

Perturbations == (-MaxPerturbation)..MaxPerturbation

LandscapeHeight == 720
LandscapeWidth == 1280

PortraitHeight == 960
PortraitWidth == 720

ArchitectureHeight == 800
ArchitectureWidth == 1200

NatureHeight == 1080
NatureWidth == 1920
AbstractHeight == 600
AbstractWidth == 800

DefaultSize(t) ==
    CASE t = "landscape" -> <<LandscapeHeight, LandscapeWidth>>
      [] t = "portrait" -> <<PortraitHeight, PortraitWidth>>
      [] t = "architecture" -> <<ArchitectureHeight, ArchitectureWidth>>
      [] t = "nature" -> <<NatureHeight, NatureWidth>>
      [] t = "abstract" -> <<AbstractHeight, AbstractWidth>>

\* Canvases on which the stripe loop of the architecture composer runs: 12
\* floor spacings and a row, by 8 stripe widths and a remainder.
StripedSizes ==
    {12 * fs + 1 : fs \in 0..MaxFloorSpacing}
        \X {8 * sw + r : sw \in 1..MaxStripeWidth, r \in 0..MaxRemainder}

\* Square canvases, for the circle of the portrait composer, and the two
\* one-pixel-wide ones.
SquareSizes ==
    {<<k, k>> : k \in 1..MaxHeight} \cup {<<1, MaxWidth>>, <<MaxHeight, 1>>}

\* The landscape composer treats all columns alike: it runs on every small
\* height, with the narrowest and the widest small width.
TallSizes == (1..MaxHeight) \X {1, MaxWidth}

\* The nature and abstract composers have no loop over rows or columns, and
\* on a small canvas the architecture composer stops at its first loop: they
\* run on the smallest and on the largest small canvas.
CornerSizes == {<<1, 1>>, <<MaxHeight, MaxWidth>>}

Sizes(t) ==
    CASE t = "landscape" -> TallSizes \cup {DefaultSize(t)}
      [] t = "portrait" -> SquareSizes \cup {DefaultSize(t)}
      [] t = "architecture" ->
            CornerSizes \cup StripedSizes \cup {DefaultSize(t)}
      [] OTHER -> CornerSizes \cup {DefaultSize(t)}

ProbeCoords(k) == IF k <= MaxProbe THEN 0..(k - 1) ELSE {k \div 2}

Probes(t, h, w) ==
    IF <<h, w>> = DefaultSize(t)
    THEN {[y |-> h - 1, x |-> w - 1, c |-> ch] : ch \in 1..3}
    ELSE {[y |-> py, x |-> px, c |-> ch] :
            py \in ProbeCoords(h), px \in ProbeCoords(w), ch \in 1..3}

\* the state in which no run of main is in progress
MainIdle ==
    /\ files = <<>>
    /\ run = 0
    /\ turn = 0
    /\ mpc = "idle"
    /\ invoked = <<>>
    /\ complete = FALSE

\* the state right after `image = np.zeros(...)` / `np.full(...)`
Start(t, first, fills) ==
    /\ theme = t
    /\ \E s \in Sizes(t) :
        /\ height = s[1]
        /\ width = s[2]
        /\ shape = <<s[1], s[2], 3>>
        /\ probe \in Probes(t, s[1], s[2])
        /\ rowWrites = IF t = "landscape"
                       THEN [r \in 0..(s[1] - 1) |-> <<>>]
                       ELSE <<>>
    /\ pc = first
    /\ y = 0
    /\ i = 0
    /\ building = 0
    /\ floor = 0
    /\ n = 0
    /\ image \in fills
    /\ raw = image
    /\ rect = <<0, 0, 0, 0>>
    /\ passes = 0
    /\ error = "none"
    /\ drawn = 0
    /\ MainIdle

\* an exception leaves the composer
Raise(exception) ==
    /\ error' = exception
    /\ pc' = "raised"

\* image[mask] = triple, or a slice assignment, `hit` telling whether the
\* observed element is selected
WriteWhere(hit, triple) ==
    /\ image' = IF hit THEN AsUint8(triple[probe.c]) ELSE image
    /\ raw' = IF hit THEN triple[probe.c] ELSE raw

\* the same with a colour that depends on a random draw, `triples` holding
\* the colour of each possible draw: the draws for elements other than the
\* observed one are not enumerated
DrawWhere(hit, triples) ==
    IF hit
    THEN \E triple \in triples : WriteWhere(TRUE, triple)
    ELSE UNCHANGED <<image, raw>>

\* image[y_, :] = triple  (the whole row y_)
WriteRow(row, triple) ==
    /\ image' = IF probe.y = row THEN AsUint8(triple[probe.c]) ELSE image
    /\ raw' = IF probe.y = row THEN triple[probe.c] ELSE raw

\* image = np.clip(image.astype(np.int16) + noise, 0, 255).astype(np.uint8)
\* with `d` the element of the noise array that meets the observed element
NoiseClip(d) ==
    /\ raw' = Clip(AsInt16(image) + d, 0, 255)
    /\ image' = AsUint8(Clip(AsInt16(image) + d, 0, 255))
    /\ shape' = BroadcastShape(shape, <<height, width, 3>>)
    /\ passes' = passes + 1

---------------------------------------------------------------------------
(* create_landscape_image *)

sky_height == height \div 3
mountain_start == sky_height
mountain_height == height \div 4
ground_start_late == mountain_start + mountain_height + 1
ground_start == mountain_start + mountain_height

\* int(120 + (180 - 120) * (1 - y / sky_height)), in exact arithmetic
SkyIntensity(row) == 120 + (60 * (sky_height - row)) \div sky_height

SkyColor(intensity) == <<intensity, intensity - 30, intensity - 60>>
MountainColor(base_color) == <<base_color, base_color - 10, base_color - 20>>
GroundColorWrapping(green_intensity) ==
    <<green_intensity - 40, green_intensity, green_intensity - 160>>
GroundColor(green_intensity) ==
    <<green_intensity - 40, green_intensity, green_intensity - 60>>

LandscapeTexture(d) == d \in RandInt(-10, 10)

MarkRow(row, band) ==
    rowWrites' = [rowWrites EXCEPT ![row] = Append(@, band)]

LandscapeInit == Start("landscape", "sky", {0})

SkyRow ==
    /\ theme = "landscape" /\ pc = "sky"
    /\ y < sky_height
    /\ WriteRow(y, SkyColor(SkyIntensity(y)))
    /\ MarkRow(y, "sky")
    /\ y' = y + 1
    /\ UNCHANGED <<theme, height, width, shape, pc, i, building, floor, n, probe,
                   rect, passes, error, drawn>>
    /\ UNCHANGED mainVars

SkyEnd ==
    /\ theme = "landscape" /\ pc = "sky"
    /\ y >= sky_height
    /\ pc' = "mountain"
    /\ y' = mountain_start
    /\ UNCHANGED <<theme, height, width, shape, i, building, floor, n, probe,
                   image, raw, rowWrites, rect, passes, error, drawn>>
    /\ UNCHANGED mainVars

MountainRow ==
    /\ theme = "landscape" /\ pc = "mountain"
    /\ y < mountain_start + mountain_height
    /\ DrawWhere(probe.y = y,
                 {MountainColor(80 + noise) : noise \in RandInt(-20, 20)})
    /\ MarkRow(y, "mountain")
    /\ y' = y + 1
    /\ UNCHANGED <<theme, height, width, shape, pc, i, building, floor, n, probe,
                   rect, passes, error, drawn>>
    /\ UNCHANGED mainVars

MountainEnd ==
    /\ theme = "landscape" /\ pc = "mountain"
    /\ y >= mountain_start + mountain_height
    /\ pc' = "ground"
    /\ y' = ground_start
    /\ UNCHANGED <<theme, height, width, shape, i, building, floor, n, probe,
                   image, raw, rowWrites, rect, passes, error, drawn>>
    /\ UNCHANGED mainVars

GroundRow ==
    /\ theme = "landscape" /\ pc = "ground"
    /\ y < height
    /\ DrawWhere(probe.y = y,
                 {GroundColor(100 + noise) : noise \in RandInt(-15, 15)})
    /\ MarkRow(y, "ground")
    /\ y' = y + 1
    /\ UNCHANGED <<theme, height, width, shape, pc, i, building, floor, n, probe,
                   rect, passes, error, drawn>>
    /\ UNCHANGED mainVars

GroundEnd ==
    /\ theme = "landscape" /\ pc = "ground"
    /\ y >= height
    /\ pc' = "texture"
    /\ UNCHANGED <<theme, height, width, shape, y, i, building, floor, n, probe,
                   image, raw, rowWrites, rect, passes, error, drawn>>
    /\ UNCHANGED mainVars

LandscapeNoise(d) ==
    /\ theme = "landscape" /\ pc = "texture"
    /\ LandscapeTexture(d)
    /\ NoiseClip(d)
    /\ pc' = "done"
    /\ UNCHANGED <<theme, height, width, y, i, building, floor, n, probe,
                   rowWrites, rect, error, drawn>>
    /\ UNCHANGED mainVars

LandscapeTextureStep == \E d \in Perturbations : LandscapeNoise(d)

LandscapeNext ==
    \/ SkyRow
    \/ SkyEnd
    \/ MountainRow
    \/ MountainEnd
    \/ GroundRow
    \/ GroundEnd
    \/ LandscapeTextureStep

SpecLandscape == LandscapeInit /\ [][LandscapeNext]_vars

---------------------------------------------------------------------------
(* create_portrait_image *)

\* int(150 + 50 * np.sin(x / width * np.pi) * np.cos(y / height * np.pi))
BackgroundIntensity(row, col) ==
    IntTrunc(150 * FxOne + 50 * FxMul(SinPi(col, width), CosPi(row, height)),
             FxOne)

BackgroundColor(intensity) == <<intensity, intensity - 20, intensity - 40>>

center_x == width \div 2
center_y == height \div 2
radius == Min(width, height) \div 4

\* mask[probe.y, probe.x]
FaceMaskOpen == InCircleStrict(probe, center_x, center_y, radius)
FaceMask == InCircle(probe, center_x, center_y, radius)

PortraitTexture(d) == d \in RandInt(-15, 15)

PortraitInit == Start("portrait", "background", {0})

\* one turn of `for y in range(height)`, with its whole inner loop over x
BackgroundRow ==
    /\ theme = "portrait" /\ pc = "background"
    /\ y < height
    /\ WriteRow(y, BackgroundColor(BackgroundIntensity(y, probe.x)))
    /\ y' = y + 1
    /\ UNCHANGED <<theme, height, width, shape, pc, i, building, floor, n, probe,
                   rowWrites, rect, passes, error, drawn>>
    /\ UNCHANGED mainVars

BackgroundEnd ==
    /\ theme = "portrait" /\ pc = "background"
    /\ y >= height
    /\ pc' = "face"
    /\ UNCHANGED <<theme, height, width, shape, y, i, building, floor, n, probe,
                   image, raw, rowWrites, rect, passes, error, drawn>>
    /\ UNCHANGED mainVars

\* face_color = np.random.randint(180, 220, 3); image[mask] = face_color
\* (of the three independent components only the one of the observed channel
\* is drawn; the triple repeats it)
Face ==
    /\ theme = "portrait" /\ pc = "face"
    /\ DrawWhere(FaceMask,
                 {<<face_color, face_color, face_color>> :
                     face_color \in RandInt(180, 220)})
    /\ pc' = "noise"
    /\ UNCHANGED <<theme, height, width, shape, y, i, building, floor, n, probe,
                   rowWrites, rect, passes, error, drawn>>
    /\ UNCHANGED mainVars

PortraitNoise(d) ==
    /\ theme = "portrait" /\ pc = "noise"
    /\ PortraitTexture(d)
    /\ NoiseClip(d)
    /\ pc' = "done"
    /\ UNCHANGED <<theme, height, width, y, i, building, floor, n, probe,
                   rowWrites, rect, error, drawn>>
    /\ UNCHANGED mainVars

PortraitNoiseStep == \E d \in Perturbations : PortraitNoise(d)

PortraitNext ==
    \/ BackgroundRow
    \/ BackgroundEnd
    \/ Face
    \/ PortraitNoiseStep

SpecPortrait == PortraitInit /\ [][PortraitNext]_vars

---------------------------------------------------------------------------
(* create_architecture_image *)

StripeWidth(w) == w \div 8
FloorSpacing(h) == h \div 12
stripe_width == StripeWidth(width)
floor_spacing == FloorSpacing(height)


StripeColor(color_intensity) ==
    <<color_intensity, color_intensity - 20, color_intensity - 30>>
FloorLineColor == <<60, 60, 60>>
LitWindow == <<200, 220, 180>>
DarkWindow == <<40, 50, 60>>

window_x == building + stripe_width \div 4
window_y == floor + floor_spacing \div 4
window_w == stripe_width \div 2
window_h == floor_spacing \div 2

\* window_x + window_w < width and window_y + window_h < height
WindowFitsLoose == window_x < width /\ window_y < height
WindowFits == window_x + window_w < width /\ window_y + window_h < height

ArchitectureTexture(d) == d \in RandInt(-8, 8)

ArchitectureInit == Start("architecture", "stripes", {120})

\* range(0, width, stripe_width * 2) with a zero step
StripeRangeError ==
    /\ theme = "architecture" /\ pc = "stripes"
    /\ RangeRaises(stripe_width * 2)
    /\ Raise("ValueError: range() arg 3 must not be zero")
    /\ UNCHANGED <<theme, height, width, shape, y, i, building, floor, n, probe,
                   image, raw, rowWrites, rect, passes, drawn>>
    /\ UNCHANGED mainVars

Stripe ==
    /\ theme = "architecture" /\ pc = "stripes"
    /\ ~RangeRaises(stripe_width * 2)
    /\ i < width
    /\ LET end_x == Min(i + stripe_width, width)
           cols == SliceBounds(0, height, i, end_x, height, width)
       IN  /\ DrawWhere(InSlice(probe, cols),
                         {StripeColor(color_intensity) :
                             color_intensity \in RandInt(80, 180)})
           /\ rect' = cols
    /\ i' = i + stripe_width * 2
    /\ UNCHANGED <<theme, height, width, shape, pc, y, building, floor, n, probe,
                   rowWrites, passes, error, drawn>>
    /\ UNCHANGED mainVars

StripesEnd ==
    /\ theme = "architecture" /\ pc = "stripes"
    /\ ~RangeRaises(stripe_width * 2)
    /\ i >= width
    /\ pc' = "floors"
    /\ y' = floor_spacing
    /\ UNCHANGED <<theme, height, width, shape, i, building, floor, n, probe,
                   image, raw, rowWrites, rect, passes, error, drawn>>
    /\ UNCHANGED mainVars

\* range(floor_spacing, height, floor_spacing) with a zero step
FloorRangeError ==
    /\ theme = "architecture" /\ pc = "floors"
    /\ RangeRaises(floor_spacing)
    /\ Raise("ValueError: range() arg 3 must not be zero")
    /\ UNCHANGED <<theme, height, width, shape, y, i, building, floor, n, probe,
                   image, raw, rowWrites, rect, passes, drawn>>
    /\ UNCHANGED mainVars

\* image[y:y+3, :] = [60, 60, 60]  (`if y < height` holds in the loop)
FloorLine ==
    /\ theme = "architecture" /\ pc = "floors"
    /\ ~RangeRaises(floor_spacing)
    /\ y < height
    /\ LET rows == SliceBounds(y, y + 3, 0, width, height, width)
       IN  /\ WriteWhere(InSlice(probe, rows), FloorLineColor)
           /\ rect' = rows
    /\ y' = y + floor_spacing
    /\ UNCHANGED <<theme, height, width, shape, pc, i, building, floor, n, probe,
                   rowWrites, passes, error, drawn>>
    /\ UNCHANGED mainVars

FloorsEnd ==
    /\ theme = "architecture" /\ pc = "floors"
    /\ ~RangeRaises(floor_spacing)
    /\ y >= height
    /\ pc' = "windows"
    /\ building' = 0
    /\ floor' = floor_spacing
    /\ UNCHANGED <<theme, height, width, shape, y, i, n, probe,
                   image, raw, rowWrites, rect, passes, error, drawn>>
    /\ UNCHANGED mainVars

\* a window that passes the test of line 98 is written
Window ==
    /\ theme = "architecture" /\ pc = "windows"
    /\ building < width
    /\ floor < height - floor_spacing
    /\ WindowFits
    /\ LET area == <<window_y, window_y + window_h,
                     window_x, window_x + window_w>>
       IN  /\ \E window_color \in {LitWindow, DarkWindow} :
                WriteWhere(InSlice(probe, area), window_color)
           /\ rect' = area
    /\ floor' = floor + floor_spacing
    /\ UNCHANGED <<theme, height, width, shape, pc, y, i, building, n, probe,
                   rowWrites, passes, error, drawn>>
    /\ UNCHANGED mainVars

\* a window that fails the test is left out
WindowSkipped ==
    /\ theme = "architecture" /\ pc = "windows"
    /\ building < width
    /\ floor < height - floor_spacing
    /\ ~WindowFits
    /\ floor' = floor + floor_spacing
    /\ UNCHANGED <<theme, height, width, shape, pc, y, i, building, n, probe,
                   image, raw, rowWrites, rect, passes, error, drawn>>
    /\ UNCHANGED mainVars

\* the inner loop is exhausted: the next building
NextBuilding ==
    /\ theme = "architecture" /\ pc = "windows"
    /\ building < width
    /\ floor >= height - floor_spacing
    /\ building' = building + stripe_width * 2
    /\ floor' = floor_spacing
    /\ UNCHANGED <<theme, height, width, shape, pc, y, i, n, probe,
                   image, raw, rowWrites, rect, passes, error, drawn>>
    /\ UNCHANGED mainVars

WindowsEnd ==
    /\ theme = "architecture" /\ pc = "windows"
    /\ building >= width
    /\ pc' = "noise"
    /\ UNCHANGED <<theme, height, width, shape, y, i, building, floor, n, probe,
                   image, raw, rowWrites, rect, passes, error, drawn>>
    /\ UNCHANGED mainVars

ArchitectureNoise(d) ==
    /\ theme = "architecture" /\ pc = "noise"
    /\ ArchitectureTexture(d)
    /\ NoiseClip(d)
    /\ pc' = "done"
    /\ UNCHANGED <<theme, height, width, y, i, building, floor, n, probe,
                   rowWrites, rect, error, drawn>>
    /\ UNCHANGED mainVars

ArchitectureNoiseStep == \E d \in Perturbations : ArchitectureNoise(d)

ArchitectureNext ==
    \/ StripeRangeError
    \/ Stripe
    \/ StripesEnd
    \/ FloorRangeError
    \/ FloorLine
    \/ FloorsEnd
    \/ Window
    \/ WindowSkipped
    \/ NextBuilding
    \/ WindowsEnd
    \/ ArchitectureNoiseStep

SpecArchitecture == ArchitectureInit /\ [][ArchitectureNext]_vars

---------------------------------------------------------------------------
(* create_nature_image *)

\* np.linspace(0, 4 * np.pi, k)[j] is 4 * pi * j / (k - 1), and 0 when k = 1
LinDen(k) == IF k > 1 THEN k - 1 ELSE 1

\* combined_pattern at (row, col), fixed-point
CombinedPattern(row, col) ==
    LET dx == LinDen(width)
        dy == LinDen(height)
        pattern1 == FxMul(SinPi(4 * col, dx), CosPi(4 * row, dy))
        pattern2 == FxMul(SinPi(32 * col + dx, 4 * dx),
                          CosPi(32 * row + dy, 4 * dy))
        pattern3 == FxMul(SinPi(2 * col, dx), CosPi(2 * row, dy))
    IN  pattern1 + IntTrunc(5 * pattern2, 10) + IntTrunc(3 * pattern3, 10)

base_green == 120

\* (combined_pattern * k).astype(np.int32)
Scaled(row, col, k) == IntTrunc(CombinedPattern(row, col) * k, FxOne)

\* channels 0, 1, 2 receive blue_channel, green_channel, red_channel
PatternColor(row, col) ==
    <<Clip((base_green - 60) + Scaled(row, col, 20), 0, 255),
      Clip(base_green + Scaled(row, col, 50), 0, 255),
      Clip((base_green - 40) + Scaled(row, col, 30), 0, 255)>>

num_spots == 50

\* number of dimensions of the list given to np.random.choice for spot_color
SpotColorsNdim == 2

\* the first exception a turn of the spot loop raises on an h x w canvas
SpotError(h, w) ==
    IF RandIntRaises(0, w - 20) \/ RandIntRaises(0, h - 20)
    THEN "ValueError: low >= high"
    ELSE IF ChoiceRaises(SpotColorsNdim)
    THEN "ValueError: a must be 1-dimensional"
    ELSE "none"

NatureInit == Start("nature", "pattern", {0})

\* lines 119-138: the three assignments image[:, :, k] = np.clip(...)
Pattern ==
    /\ theme = "nature" /\ pc = "pattern"
    /\ WriteWhere(TRUE, PatternColor(probe.y, probe.x))
    /\ pc' = "spots"
    /\ UNCHANGED <<theme, height, width, shape, y, i, building, floor, n, probe,
                   rowWrites, rect, passes, error, drawn>>
    /\ UNCHANGED mainVars

\* One turn of `for _ in range(num_spots)`, up to the call that raises.  Every
\* turn raises (spot_color is chosen from a list of lists), so the mask
\* assignment of line 156 and the return of line 158 are never reached.
Spot ==
    /\ theme = "nature" /\ pc = "spots"
    /\ n < num_spots
    /\ SpotError(height, width) # "none"
    /\ Raise(SpotError(height, width))
    /\ UNCHANGED <<theme, height, width, shape, y, i, building, floor, n, probe,
                   image, raw, rowWrites, rect, passes, drawn>>
    /\ UNCHANGED mainVars

NatureNext == Pattern \/ Spot

SpecNature == NatureInit /\ [][NatureNext]_vars

---------------------------------------------------------------------------
(* create_abstract_image *)

shapes == <<"circle", "rectangle", "triangle">>
num_shapes == 15

\* number of dimensions of `shapes` and of `colors`
ShapesNdim == 1
ColorsNdim == 2

\* the first exception a turn of the shape loop raises
ShapeError ==
    IF ChoiceRaises(ShapesNdim) \/ ChoiceRaises(ColorsNdim)
    THEN "ValueError: a must be 1-dimensional"
    ELSE "none"

\* image = np.random.randint(50, 200, (height, width, 3), dtype=np.uint8)
AbstractInit == Start("abstract", "shapes", RandInt(50, 200))

\* One turn of `for _ in range(num_shapes)`, up to the call that raises.  Every
\* turn raises (color is chosen from a list of lists), so no shape is drawn and
\* the overlay loop of lines 201-203 and the return of line 205 are never
\* reached.
Shape ==
    /\ theme = "abstract" /\ pc = "shapes"
    /\ n < num_shapes
    /\ ShapeError # "none"
    /\ Raise(ShapeError)
    /\ UNCHANGED <<theme, height, width, shape, y, i, building, floor, n, probe,
                   image, raw, rowWrites, rect, passes, drawn>>
    /\ UNCHANGED mainVars

AbstractNext == Shape

---------------------------------------------------------------------------
(* The five composers, each on any of its sizes. *)

Texture(t, d) ==
    CASE t = "landscape" -> LandscapeTexture(d)
      [] t = "portrait" -> PortraitTexture(d)
      [] t = "architecture" -> ArchitectureTexture(d)
      [] OTHER -> FALSE

\* a further pass of the composer's noise-and-clip statement over the canvas
\* it returned
NoiseAgain ==
    /\ pc = "done"
    /\ passes <= MaxExtraPasses
    /\ \E d \in Perturbations :
        /\ Texture(theme, d)
        /\ NoiseClip(d)
    /\ UNCHANGED <<theme, height, width, pc, y, i, building, floor, n, probe,
                   rowWrites, rect, error, drawn>>
    /\ UNCHANGED mainVars

Init ==
    \/ LandscapeInit
    \/ PortraitInit
    \/ ArchitectureInit
    \/ NatureInit
    \/ AbstractInit

Next ==
    \/ LandscapeNext
    \/ PortraitNext
    \/ ArchitectureNext
    \/ NatureNext
    \/ AbstractNext
    \/ NoiseAgain

Spec == Init /\ [][Next]_vars

---------------------------------------------------------------------------
(* main *)

\* the keys of `generators`, in insertion order, and the composer of each
filenames ==
    <<"landscape.jpg", "portrait.jpg", "architecture.jpg", "nature.jpg",
      "abstract.jpg">>
generators ==
    <<"landscape", "portrait", "architecture", "nature", "abstract">>

\* what generator() does when called with its default size: the exception it
\* raises, or "none" when it returns a canvas
GeneratorError(t) ==
    LET s == DefaultSize(t)
    IN  CASE t = "architecture" ->
                IF RangeRaises(StripeWidth(s[2]) * 2)
                     \/ RangeRaises(FloorSpacing(s[1]))
                THEN "ValueError: range() arg 3 must not be zero"
                ELSE "none"
          [] t = "nature" -> IF num_spots > 0 THEN SpotError(s[1], s[2]) ELSE "none"
          [] t = "abstract" -> IF num_shapes > 0 THEN ShapeError ELSE "none"
          [] OTHER -> "none"

\* os.path.exists(filepath)
ExistsNever(filename) == FALSE
Exists(filename) == files[filename] > 0

NoCalls == [f \in {filenames[k] : k \in 1..Len(filenames)} |->
                [generator |-> 0, blur |-> 0, write |-> 0]]

ComposerIdle ==
    /\ theme = "none"
    /\ height = 0
    /\ width = 0
    /\ shape = <<>>
    /\ pc = "idle"
    /\ y = 0
    /\ i = 0
    /\ building = 0
    /\ floor = 0
    /\ n = 0
    /\ probe = [y |-> 0, x |-> 0, c |-> 1]
    /\ image = 0
    /\ raw = 0
    /\ rowWrites = <<>>
    /\ rect = <<0, 0, 0, 0>>
    /\ passes = 0
    /\ error = "none"
    /\ drawn = 0

\* main starts on a directory that holds any of the five files already
MainInit ==
    /\ files \in [{filenames[k] : k \in 1..Len(filenames)} -> 0..1]
    /\ run = 1
    /\ turn = 1
    /\ mpc = "loop"
    /\ invoked = NoCalls
    /\ complete = FALSE
    /\ ComposerIdle

\* lines 225-227: the file exists, `continue`
SkipExisting ==
    /\ mpc = "loop"
    /\ turn <= Len(filenames)
    /\ Exists(filenames[turn])
    /\ turn' = turn + 1
    /\ UNCHANGED <<files, run, mpc, invoked, complete>>
    /\ UNCHANGED composerVars

\* lines 229-238: generator(), cv2.GaussianBlur, cv2.imwrite
Generate ==
    /\ mpc = "loop"
    /\ turn <= Len(filenames)
    /\ ~Exists(filenames[turn])
    /\ GeneratorError(generators[turn]) = "none"
    /\ invoked' = [invoked EXCEPT ![filenames[turn]] =
                       [generator |-> @.generator + 1,
                        blur |-> @.blur + 1,
                        write |-> @.write + 1]]
    /\ files' = [files EXCEPT ![filenames[turn]] = run + 1]
    /\ turn' = turn + 1
    /\ UNCHANGED <<run, mpc, complete>>
    /\ UNCHANGED composerVars

\* line 230 raises: the exception leaves main
GenerateRaises ==
    /\ mpc = "loop"
    /\ turn <= Len(filenames)
    /\ ~Exists(filenames[turn])
    /\ GeneratorError(generators[turn]) # "none"
    /\ invoked' = [invoked EXCEPT ![filenames[turn]].generator = @ + 1]
    /\ mpc' = "raised"
    /\ UNCHANGED <<files, run, turn, complete>>
    /\ UNCHANGED composerVars

\* the loop is exhausted: lines 240-241
Finish ==
    /\ mpc = "loop"
    /\ turn > Len(filenames)
    /\ mpc' = "finished"
    /\ UNCHANGED <<files, run, turn, invoked, complete>>
    /\ UNCHANGED composerVars

\* the program is started again on the directory the last run left
RunAgain ==
    /\ mpc \in {"finished", "raised"}
    /\ run < MaxRuns
    /\ run' = run + 1
    /\ turn' = 1
    /\ mpc' = "loop"
    /\ invoked' = NoCalls
    /\ complete' = (mpc = "finished")
    /\ UNCHANGED files
    /\ UNCHANGED composerVars

MainNext ==
    \/ SkipExisting
    \/ Generate
    \/ GenerateRaises
    \/ Finish
    \/ RunAgain

SpecMain == MainInit /\ [][MainNext]_vars

---------------------------------------------------------------------------
(* Properties. *)

\* C1: in create_landscape_image the band loops partition the rows: at no
\* time is a row written twice, and once the three loops have run each row r
\* has been written exactly once, by the sky loop when r < height//3, by the
\* mountain loop when height//3 <= r < height//3 + height//4 and by the
\* ground loop otherwise; for height 720 the bands are [0,240), [240,420)
\* and [420,720).
C1_BandOf(r) ==
    IF r < height \div 3 THEN "sky"
    ELSE IF r < height \div 3 + height \div 4 THEN "mountain"
    ELSE "ground"
C3_DefaultSizeReturns ==
    <<height, width>> = DefaultSize(theme) =>
        /\ error = "none"
        /\ pc = "done" => shape = <<height, width, 3>>

\* C4: in create_portrait_image, after the mask assignment and before the
\* noise pass, an element inside the circle of radius min(width, height)//4
\* about (width//2, height//2) holds the face colour drawn (an integer of
\* 180..219), and an element outside it still holds its background value.
C4_InFace ==
    (probe.x - width \div 2) * (probe.x - width \div 2)
        + (probe.y - height \div 2) * (probe.y - height \div 2)
      <= (Min(width, height) \div 4) * (Min(width, height) \div 4)
C4_FaceMaskExact ==
    (theme = "portrait" /\ pc = "noise") =>
        IF C4_InFace
        THEN image = raw /\ raw \in 180..219
        ELSE image = BackgroundColor(BackgroundIntensity(probe.y, probe.x))[probe.c]
C4_Witness ==
    /\ theme = "portrait" /\ pc = "noise"
    /\ C4_InFace /\ probe.x # width \div 2
    /\ image = raw /\ raw = 219

\* C5: in create_architecture_image, a turn of the window loop whose
\* candidate rectangle ends before the right and bottom edges writes exactly
\* that rectangle, which lies inside the canvas; a turn whose candidate
\* reaches or passes an edge writes nothing.
C5_Candidate ==
    <<floor + (height \div 12) \div 4,
      floor + (height \div 12) \div 4 + (height \div 12) \div 2,
      building + (width \div 8) \div 4,
      building + (width \div 8) \div 4 + (width \div 8) \div 2>>
C5_Inside(r) == 0 <= r[1] /\ r[2] <= height /\ 0 <= r[3] /\ r[4] <= width
C5_WindowTurn ==
    (theme = "architecture" /\ pc = "windows"
        /\ building' = building /\ floor' # floor) =>
        IF C5_Candidate[2] >= height \/ C5_Candidate[4] >= width
        THEN rect' = rect /\ image' = image
        ELSE rect' = C5_Candidate /\ C5_Inside(rect')
C5_WindowsInsideCanvas == [][C5_WindowTurn]_vars
C5_Witness ==
    /\ theme = "architecture" /\ pc = "windows"
    /\ floor > floor_spacing
    /\ rect = <<floor - floor_spacing + floor_spacing \div 4,
                floor - floor_spacing + floor_spacing \div 4 + floor_spacing \div 2,
                building + stripe_width \div 4,
                building + stripe_width \div 4 + stripe_width \div 2>>
    /\ rect[1] < rect[2] /\ rect[3] < rect[4]

\* C6: in main, for a file that exists when its turn comes nothing is invoked
\* and the file is left as it is; no file is written twice in a run; a run
\* that follows a complete run invokes and writes nothing.
C6_SkipTurn ==
    (mpc = "loop" /\ turn <= 5 /\ files[filenames[turn]] > 0) =>
        files' = files /\ invoked' = invoked
C6_RunInv ==
    mpc # "idle" =>
        /\ \A f \in DOMAIN invoked : invoked[f].write <= 1
        /\ complete => \A f \in DOMAIN invoked :
                           invoked[f] = [generator |-> 0, blur |-> 0, write |-> 0]
C7_Low(t) ==
    CASE t = "landscape" -> -10 [] t = "portrait" -> -15 [] OTHER -> -8
C7_NoisePending ==
    \/ theme = "landscape" /\ pc = "texture"
    \/ theme \in {"portrait", "architecture"} /\ pc = "noise"
C7_Possible(d) ==
    ENABLED (/\ \/ LandscapeNoise(d)
                \/ PortraitNoise(d)
                \/ ArchitectureNoise(d)
             /\ image' = Clip(image + d, 0, 255))
C8_DegenerateSizesComplete == error = "none" /\ pc # "raised"

\* C9: every run of create_abstract_image ends with exactly 15 shapes drawn.
C9_FifteenShapes ==
    (theme = "abstract" /\ pc \in {"done", "raised"}) => drawn = 15

===========================================================================
